---- MODULE Spec2Model ----
(***************************************************************************)
(* State-machine model of the hyakunin-isshu karuta game.                  *)
(*                                                                         *)
(* GameEngine (public/js/gameEngine.js): the constructor, initGame,        *)
(* getCurrentReadingCard, selectCard, nextRound, isGameOver, getGameState  *)
(* and the Fisher-Yates shuffle that initGame uses.                        *)
(*                                                                         *)
(* A poem is a record [id, author]; the author tells two records with the  *)
(* same id apart.  JavaScript's null is the record NullPoem, whose id 0 is *)
(* the id of no poem.                                                      *)
(***************************************************************************)
EXTENDS Integers, Sequences, FiniteSets, TLC

\* ---------------------------------------------------------------- bounds
\* largest catalogue handed to the constructor
MaxPoems == 2
\* most selectCard calls judged in one playthrough
MaxJudged == 4
\* longest array handed to fisherYatesShuffle on its own
MaxShuffleLen == 3
\* the arrays shuffled on their own hold the numbers 1..MaxElement
MaxElement == 2
\* largest totalCards given to a ScoreManager
MaxTotalCards == 10
\* most addCorrect and addIncorrect calls between two resets
MaxAdds == 10
\* accuracy is computed for every total up to MaxSmallTotal and for the totals
\* 32, 64, ..., 32 * MaxTieBlocks, which allow a quotient ending in exactly 5
MaxSmallTotal == 12
MaxTieBlocks == 25
\* most startGame calls (start or replay button) in one run of the page
MaxStarts == 2
\* a collection differs from the valid one at its first MaxEdited places and
\* at its last one
MaxEdited == 1

\* ---------------------------------------------------------------- data
NullPoem == [id |-> 0, author |-> "null"]

Authors == <<"a", "b", "c", "d", "e", "f">>

\* the i-th poem of a catalogue with pairwise distinct ids
Poem(i) == [id |-> i, author |-> Authors[i]]

\* the i-th poem of a catalogue in which the second record repeats id 1
DupPoem(i) == [id |-> IF i = 2 THEN 1 ELSE i, author |-> Authors[i]]

\* the arrays the constructor is given: non-empty, ids distinct or not
Catalogues ==
    { [i \in 1..n |-> Poem(i)] : n \in 1..MaxPoems }
        \cup { [i \in 1..n |-> DupPoem(i)] : n \in 2..MaxPoems }

\* the ids a caller passes to selectCard: every catalogue id and one more
CardIds == 1..(MaxPoems + 1)

DistinctIds(cards) ==
    \A i, j \in 1..Len(cards) : cards[i].id = cards[j].id => i = j

\* ---------------------------------------------------------------- shuffle
\* the outcomes of Math.floor(Math.random() * (i + 1)) for i = n-1 .. 1,
\* written 1-based: draw[i] \in 1..i for i = n .. 2
RandomDraws(n) == { d \in [2..n -> 1..n] : \A i \in 2..n : d[i] <= i }

\* the exchange without the temporary: arr[i] is overwritten before it is saved
Swap_noTemp(arr, i, j) ==
    [k \in 1..Len(arr) |-> IF k = i THEN arr[j] ELSE arr[k]]

\* one pass of the loop body: exchange arr[i] and arr[j]
Swap(arr, i, j) ==
    [k \in 1..Len(arr) |-> IF k = i THEN arr[j] ELSE IF k = j THEN arr[i] ELSE arr[k]]

RECURSIVE ShuffleFrom(_, _, _)
ShuffleFrom(arr, i, draw) ==
    IF i > 1 THEN ShuffleFrom(Swap(arr, i, draw[i]), i - 1, draw) ELSE arr

\* fisherYatesShuffle(array): works on a copy, i runs from the last index down
fisherYatesShuffle(array, draw) == ShuffleFrom(array, Len(array), draw)

\* const arr = array.slice(): the loop writes to a copy, not to the caller's array
ShuffleWorksOnCopy_inPlace == FALSE

ShuffleWorksOnCopy == TRUE

\* a call seen from the caller: the array returned and the caller's own array
\* as the call leaves it
fisherYatesCall(array, draw) ==
    LET arr == fisherYatesShuffle(array, draw)
    IN  [returned |-> arr, array |-> IF ShuffleWorksOnCopy THEN array ELSE arr]

\* the arrays of numbers shuffled on their own, repeated elements included
ShuffleInputs ==
    UNION { [1..n -> 1..MaxElement] : n \in 0..MaxShuffleLen }

\* ---------------------------------------------------------------- doubles
\* JavaScript numbers are IEEE-754 doubles.  A positive double is a record
\* [limbs, exp]: its 53-bit significand is 2^52 + l1*B^3 + l2*B^2 + l3*B + l4
\* for limbs = <<l1, l2, l3, l4>> in base B = 2^13, and its value is
\* significand * 2^exp.  Every operation rounds to nearest, ties to even.
LimbBase == 8192

RECURSIVE Pow2(_)
Pow2(n) == IF n = 0 THEN 1 ELSE 2 * Pow2(n - 1)

\* the double next above x when up holds, x itself otherwise
RoundUpIf(up, limbs, exp) ==
    LET n4 == limbs[4] + (IF up THEN 1 ELSE 0)
        n3 == limbs[3] + (n4 \div LimbBase)
        n2 == limbs[2] + (n3 \div LimbBase)
        n1 == limbs[1] + (n2 \div LimbBase)
    IN  [limbs |-> <<n1 % LimbBase, n2 % LimbBase, n3 % LimbBase, n4 % LimbBase>>,
         exp   |-> exp + (n1 \div LimbBase)]

\* the number of zero bits that open the binary expansion of c / t (0 < c < t)
RECURSIVE LeadingZeros(_, _)
LeadingZeros(c, t) == IF 2 * c >= t THEN 0 ELSE 1 + LeadingZeros(2 * c, t)

\* the double c / t for integers 0 < c <= t: long division gives the leading
\* one and four limbs, the remainder decides the rounding
DoubleDiv(c, t) ==
    IF c = t THEN [limbs |-> <<0, 0, 0, 0>>, exp |-> 0 - 52]
    ELSE LET z  == LeadingZeros(c, t)
             r1 == 2 * c * Pow2(z) - t
             d1 == (r1 * LimbBase) \div t
             r2 == (r1 * LimbBase) % t
             d2 == (r2 * LimbBase) \div t
             r3 == (r2 * LimbBase) % t
             d3 == (r3 * LimbBase) \div t
             r4 == (r3 * LimbBase) % t
             d4 == (r4 * LimbBase) \div t
             r5 == (r4 * LimbBase) % t
             up == 2 * r5 > t \/ (2 * r5 = t /\ d4 % 2 = 1)
         IN  RoundUpIf(up, <<d1, d2, d3, d4>>, 0 - (53 + z))

\* the double x * k for an integer k with 2^13 <= k < 2^14: the exact product
\* has 66 or 67 bits, of which the lowest 13 or 14 are rounded away
DoubleTimes(x, k) ==
    LET a4  == x.limbs[4] * k
        a3  == x.limbs[3] * k + (a4 \div LimbBase)
        a2  == x.limbs[2] * k + (a3 \div LimbBase)
        a1  == x.limbs[1] * k + (a2 \div LimbBase)
        top == k + (a1 \div LimbBase)
        e1  == a1 % LimbBase
        e2  == a2 % LimbBase
        e3  == a3 % LimbBase
        e4  == a4 % LimbBase
        half == LimbBase \div 2
    IN  IF top < 2 * LimbBase
        THEN RoundUpIf(e4 > half \/ (e4 = half /\ e3 % 2 = 1),
                       <<top - LimbBase, e1, e2, e3>>, x.exp + 13)
        ELSE LET s1 == (top \div 2) - LimbBase
                 s2 == (top % 2) * half + (e1 \div 2)
                 s3 == (e1 % 2) * half + (e2 \div 2)
                 s4 == (e2 % 2) * half + (e3 \div 2)
             IN  RoundUpIf(e3 % 2 = 1 /\ (e4 > 0 \/ s4 % 2 = 1),
                           <<s1, s2, s3, s4>>, x.exp + 14)

\* Math.round(x) = floor(x + 0.5) for a positive double below 2^14: the
\* integer part and the first bit after the binary point
MathRound(x) ==
    LET high  == LimbBase + x.limbs[1]
        extra == (0 - x.exp) - 39
    IN  IF extra > 15 THEN 0
        ELSE (high \div Pow2(extra))
               + (IF extra = 0 THEN x.limbs[2] \div (LimbBase \div 2)
                  ELSE (high \div Pow2(extra - 1)) % 2)

\* the rounding made on the exact quotient instead of the double
RoundedPercent_exact(correct, totalAttempts) ==
    (20000 * correct + totalAttempts) \div (2 * totalAttempts)

\* Math.round((correct / totalAttempts) * 10000), the accuracy in hundredths
\* of a percent; the code divides it by 100
RoundedPercent(correct, totalAttempts) ==
    IF correct = 0 THEN 0
    ELSE MathRound(DoubleTimes(DoubleDiv(correct, totalAttempts), 10000))

\* ---------------------------------------------------------------- state
VARIABLES
    allPoems,        \* _allPoems: the constructor's copy of the catalogue
    remainingCards,  \* _remainingCards: the pool on the field
    readingOrder,    \* _readingOrder: the prompt sequence
    currentRound,    \* _currentRound: 0-based round index
    totalRounds,     \* _totalRounds
    score,           \* _score
    incorrectCount,  \* _incorrectCount
    gameOver,        \* _gameOver
    op,              \* the last method called on the engine
    arg,             \* its cardId argument (0 when it takes none)
    result,          \* what it returned
    initialised,     \* initGame has been called on this engine
    judged,          \* selectCard calls made while not over, since initGame
    resetFrom,       \* the kind of state the last initGame was called in
    shArray,         \* a caller's array handed to fisherYatesShuffle
    shInput,         \* its contents before the last call
    shReturned,      \* the array the last call returned
    shCalled,        \* fisherYatesShuffle has been called on shArray
    totalCards,      \* ScoreManager._totalCards
    correct,         \* ScoreManager._correct
    incorrect,       \* ScoreManager._incorrect
    smOp,            \* the last constructor or ScoreManager method called
    smArg,           \* its argument
    threw,           \* it threw an Error
    smPrev,          \* the ScoreManager fields before that call
    addsCorrect,     \* addCorrect calls since construction or the last reset
    addsIncorrect,   \* addIncorrect calls since construction or the last reset
    accCalled,       \* the accuracy getter called last, "none" before any
    accuracy,        \* the accuracy it returned, in hundredths of a percent
    screen,          \* the screen that is displayed: "start", "game" or "over"
    isProcessing,    \* app.js isProcessing
    fetching,        \* poem fetches whose promise is still pending
    starts,          \* startGame calls made so far
    engineGen,       \* engines created by startGame; 0 while gameEngine is null
    field,           \* the card elements rendered last: their data-id, and
                     \* whether they are still in the game field
    timers,          \* the pending feedback promises
    appOp,           \* the last event handled by the page
    finalScore,      \* the score data handed to renderGameOver last
    held,            \* the object a caller got from getGameState and still holds
    heldShared,      \* held.remainingCards is the engine's own _remainingCards array
    returnedState,   \* the value the last getGameState call returned
    prevReturned,    \* the value the getGameState call before it returned
    engineBefore,    \* the engine fields before the caller's last step
    qOp,             \* the caller's last step with a state object; "none" before
                     \* the first, "dropped" once the object is let go
    advances,        \* nextRound calls since the last initGame
    prompted,        \* the prompts getCurrentReadingCard gave since the last initGame
    vInput,          \* the value handed to a validator
    vCalled,         \* the validator called on it, "none" before the call
    vResult,         \* the { valid, errors } it returned
    vIndex,          \* the index forEach of validatePoemCollection has come to
    vSeen,           \* errors, idSet and duplicateIds of validatePoemCollection
    startScreen,     \* _startScreen.style.display
    gameScreen,      \* _gameScreen.style.display
    gameOverScreen,  \* _gameOverScreen.style.display
    finalScoreHTML,  \* the values written into _finalScore.innerHTML
    uiOp,            \* the UIRenderer method called last
    quizOrder,       \* quiz: the question indices of this game
    current,         \* quiz: the position in order
    quizScore,       \* quiz: the global score
    shown,           \* quiz: the screen show() displayed last
    startFetches,    \* quiz: pending fetches of /api/start
    questionFetches, \* quiz: the idx of each pending fetch of /api/question
    choices,         \* quiz: the buttons in the choices container
    nextBtn,         \* quiz: style.display of next-btn
    resultScore,     \* quiz: the numbers written into result-score
    quizStarts,      \* quiz: startGame calls so far
    quizOp           \* quiz: the function that ran last

engine == <<allPoems, remainingCards, readingOrder, currentRound, totalRounds,
            score, incorrectCount, gameOver>>

\* the engine with the record of the last call made on it
engineVars == <<allPoems, remainingCards, readingOrder, currentRound, totalRounds,
                score, incorrectCount, gameOver, op, arg, result, initialised, judged>>

shuffleVars == <<shArray, shInput, shReturned, shCalled>>

\* the ScoreManager with the record of the last call made on it
scoreVars == <<totalCards, correct, incorrect, smOp, smArg, threw, smPrev,
               addsCorrect, addsIncorrect>>

\* the accuracy last read
accVars == <<accCalled, accuracy>>

\* the page: app.js and the part of the DOM it drives
appVars == <<screen, isProcessing, fetching, starts, engineGen, field, timers,
             appOp, finalScore>>

\* a caller of getGameState and the object it holds
queryVars == <<held, heldShared, returnedState, prevReturned, engineBefore, qOp>>

\* the course of one playthrough
playVars == <<advances, prompted>>


\* a validator call
validVars == <<vInput, vCalled, vResult, vIndex, vSeen>>


\* the three screens of the page and the final score box
uiVars == <<startScreen, gameScreen, gameOverScreen, finalScoreHTML, uiOp>>


\* the minimal quiz variant: its globals and the part of the page it drives
quizVars == <<quizOrder, current, quizScore, shown, startFetches, questionFetches,
              choices, nextBtn, resultScore, quizStarts, quizOp>>


vars == <<engineVars, resetFrom, shuffleVars, scoreVars, accVars, appVars, queryVars, playVars, validVars, uiVars, quizVars>>

\* the shape of a recorded return value
Returned(isCorrect, correctCard, continues) ==
    [correct |-> isCorrect, correctCard |-> correctCard, continues |-> continues]

NoResult == Returned(FALSE, NullPoem, FALSE)

\* ---------------------------------------------------------------- queries
isGameOver == gameOver

\* the query with the game-over flag left out of the test
getCurrentReadingCardOf_noFlag(over, round, total, order) ==
    IF round >= total THEN NullPoem ELSE order[round + 1]

getCurrentReadingCardOf(over, round, total, order) ==
    IF over \/ round >= total THEN NullPoem ELSE order[round + 1]

getCurrentReadingCard ==
    getCurrentReadingCardOf(gameOver, currentRound, totalRounds, readingOrder)

getGameState ==
    [remainingCards |-> remainingCards,
     currentPoem    |-> getCurrentReadingCard,
     currentRound   |-> currentRound + 1,
     totalRounds    |-> totalRounds,
     score          |-> score,
     incorrectCount |-> incorrectCount,
     isGameOver     |-> gameOver]

\* ---------------------------------------------------------------- actions
\* new GameEngine(poems) with a non-empty array
EngineConstructed ==
    /\ allPoems \in Catalogues
    /\ remainingCards = <<>>
    /\ readingOrder = <<>>
    /\ currentRound = 0
    /\ totalRounds = 0
    /\ score = 0
    /\ incorrectCount = 0
    /\ gameOver = FALSE
    /\ op = "new"
    /\ arg = 0
    /\ result = NoResult
    /\ initialised = FALSE
    /\ judged = 0
    /\ resetFrom = "none"

\* no array has been handed to fisherYatesShuffle
ShuffleIdle ==
    /\ shArray = <<>>
    /\ shInput = <<>>
    /\ shReturned = <<>>
    /\ shCalled = FALSE

\* ---------------------------------------------------------------- validators
\* the values of a poem's id field: absent, an integer, a number that is not
\* an integer (val + 0.5), a string
IdMissing == [kind |-> "undefined", val |-> 0]
IdInt(n) == [kind |-> "int", val |-> n]
IdFraction(n) == [kind |-> "fraction", val |-> n]
IdString(n) == [kind |-> "string", val |-> n]

\* the values of a text field: absent, null, a number, and strings by the
\* length of what trim() leaves of them
TextMissing == [kind |-> "undefined", trimmed |-> 0]
TextNull == [kind |-> "null", trimmed |-> 0]
TextNumber == [kind |-> "number", trimmed |-> 0]
TextEmpty == [kind |-> "string", trimmed |-> 0]
TextBlank == [kind |-> "blank string", trimmed |-> 0]
TextOf(n) == [kind |-> "string", trimmed |-> n]

\* a value handed to validatePoem: typeof value === 'object' and not null,
\* Array.isArray(value), and the four fields read from it
Candidate(obj, arr, id, author, upper, lower) ==
    [isObject |-> obj, isArray |-> arr, id |-> id,
     author |-> author, upperVerse |-> upper, lowerVerse |-> lower]

\* null, undefined or a primitive
NotAnObject == Candidate(FALSE, FALSE, IdMissing, TextMissing, TextMissing, TextMissing)

\* an array such as [1, 2, 3]
AnArray == Candidate(TRUE, TRUE, IdMissing, TextMissing, TextMissing, TextMissing)

\* the poem createValidCollection makes for an id
ValidPoem(n) == Candidate(TRUE, FALSE, IdInt(n), TextOf(3), TextOf(4), TextOf(4))

\* one error message; index is -1 outside a collection, ids and got are
\* the values a message quotes
Message(index, name, rule, ids, got) ==
    [index |-> index, field |-> name, rule |-> rule, ids |-> ids, got |-> got]

FieldError(name, rule) == Message(0 - 1, name, rule, <<>>, 0)

\* Number.isInteger(id)
IsInteger(id) == id.kind = "int"

\* the range test that lets 0 through
IdErrors_fromZero(id) ==
    IF ~IsInteger(id) THEN <<FieldError("id", "must be an integer")>>
    ELSE IF id.val < 0 \/ id.val > 100 THEN <<FieldError("id", "must be between 1 and 100")>>
    ELSE <<>>

IdErrors(id) ==
    IF ~IsInteger(id) THEN <<FieldError("id", "must be an integer")>>
    ELSE IF id.val < 1 \/ id.val > 100 THEN <<FieldError("id", "must be between 1 and 100")>>
    ELSE <<>>

\* typeof text === 'string'
IsString(text) == text.kind \in {"string", "blank string"}

TextErrors(name, text) ==
    IF ~IsString(text) THEN <<FieldError(name, "must be a string")>>
    ELSE IF text.trimmed = 0 THEN <<FieldError(name, "must be a non-empty string")>>
    ELSE <<>>

Outcome(errors) == [valid |-> Len(errors) = 0, errors |-> errors]

validatePoem(poem) ==
    IF ~poem.isObject
    THEN [valid |-> FALSE, errors |-> <<FieldError("poem", "must be a non-null object")>>]
    ELSE IF poem.isArray
    THEN [valid |-> FALSE,
          errors |-> <<FieldError("poem", "must be a plain object, not an array")>>]
    ELSE Outcome(IdErrors(poem.id)
                     \o TextErrors("author", poem.author)
                     \o TextErrors("upperVerse", poem.upperVerse)
                     \o TextErrors("lowerVerse", poem.lowerVerse))

\* the errors of one poem with the prefix 'Poem at index i: '
AtIndex(index, errors) == [k \in 1..Len(errors) |-> [errors[k] EXCEPT !.index = index]]

\* the id test of the uniqueness check with the integer test left out
CountsForUniqueness_anyNumber(id) == id.kind \in {"int", "fraction"}

\* Number.isInteger(poem?.id): the ids the uniqueness check looks at
CountsForUniqueness(id) == IsInteger(id)

\* the loop body of validatePoemCollection on the poem at a 0-based index
VisitPoem(acc, poem, index) ==
    LET checked == validatePoem(poem)
        errs    == IF ~checked.valid THEN acc.errors \o AtIndex(index, checked.errors)
                   ELSE acc.errors
    IN  IF CountsForUniqueness(poem.id)
        THEN IF poem.id \in acc.idSet
             THEN [errors |-> errs, idSet |-> acc.idSet,
                   duplicateIds |-> Append(acc.duplicateIds, poem.id)]
             ELSE [errors |-> errs, idSet |-> acc.idSet \cup {poem.id},
                   duplicateIds |-> acc.duplicateIds]
        ELSE [errors |-> errs, idSet |-> acc.idSet, duplicateIds |-> acc.duplicateIds]

\* the errors validatePoemCollection has before the loop: the size check
SizeErrors(n) ==
    IF n # 100
    THEN <<Message(0 - 1, "collection", "must contain exactly 100 poems", <<>>, n)>>
    ELSE <<>>

\* the errors it returns after the loop: the duplicate ids are appended
WithDuplicates(seen) ==
    IF Len(seen.duplicateIds) > 0
    THEN Append(seen.errors,
                Message(0 - 1, "collection", "Duplicate poem IDs found", seen.duplicateIds, 0))
    ELSE seen.errors

\* ---------------------------------------------------------------- ScoreManager
\* JavaScript values passed as totalCards: kind is the typeof class, int is
\* Number.isInteger, val the number (rounded down when it is not an integer)
JsUndefined == [kind |-> "undefined", int |-> FALSE, val |-> 0]
JsNull == [kind |-> "null", int |-> FALSE, val |-> 0]
JsString(n) == [kind |-> "string", int |-> FALSE, val |-> n]
JsNumber(n) == [kind |-> "number", int |-> TRUE, val |-> n]
JsFraction(n) == [kind |-> "number", int |-> FALSE, val |-> n]

\* the arguments tried: undefined, null, '10', -1, -5, 3.5 and 0..MaxTotalCards
TotalArgs ==
    {JsUndefined, JsNull, JsString(10), JsFraction(3), JsNumber(0 - 5), JsNumber(0 - 1)}
        \cup { JsNumber(n) : n \in 0..MaxTotalCards }

\* the test that lets a negative number through
IsValidTotal_noSign(x) == ~(x.kind # "number" \/ ~x.int)

\* the negation of the test that guards the throw
IsValidTotal(x) == ~(x.kind # "number" \/ ~x.int \/ x.val < 0)

\* the values passed as poems: not an array, an empty array, a catalogue
PoemsArgs ==
    {[isArray |-> FALSE, items |-> <<>>], [isArray |-> TRUE, items |-> <<>>]}
        \cup { [isArray |-> TRUE, items |-> c] : c \in Catalogues }

Fields(total, c, i) == [totalCards |-> total, correct |-> c, incorrect |-> i]

\* new ScoreManager(n) has returned
ScoreConstructed(n) ==
    /\ totalCards = n
    /\ correct = 0
    /\ incorrect = 0
    /\ smOp = "newScoreManager"
    /\ smArg = JsNumber(n)
    /\ threw = FALSE
    /\ smPrev = Fields(n, 0, 0)
    /\ addsCorrect = 0
    /\ addsIncorrect = 0

Called(name, x, failed) ==
    /\ smOp' = name
    /\ smArg' = x
    /\ threw' = failed
    /\ smPrev' = Fields(totalCards, correct, incorrect)

\* sm = new ScoreManager(x): a throw leaves the variable sm as it was
newScoreManager(x) ==
    /\ Called("newScoreManager", x, ~IsValidTotal(x))
    /\ IF ~IsValidTotal(x)
       THEN UNCHANGED <<totalCards, correct, incorrect, addsCorrect, addsIncorrect>>
       ELSE /\ totalCards' = x.val
            /\ correct' = 0
            /\ incorrect' = 0
            /\ addsCorrect' = 0
            /\ addsIncorrect' = 0

\* the condition of the empty if statement in addCorrect
AllCardsTaken(c, i, total) == c + i >= total + i

\* addCorrect with the comment of its empty branch carried out
addCorrect_capped ==
    /\ correct + incorrect < MaxAdds
    /\ Called("addCorrect", JsUndefined, FALSE)
    /\ correct' = IF AllCardsTaken(correct, incorrect, totalCards) THEN correct ELSE correct + 1
    /\ addsCorrect' = addsCorrect + 1
    /\ UNCHANGED <<totalCards, incorrect, addsIncorrect>>

addCorrect ==
    /\ correct + incorrect < MaxAdds
    /\ Called("addCorrect", JsUndefined, FALSE)
    /\ AllCardsTaken(correct, incorrect, totalCards) \in BOOLEAN   \* the branch is empty
    /\ correct' = correct + 1
    /\ addsCorrect' = addsCorrect + 1
    /\ UNCHANGED <<totalCards, incorrect, addsIncorrect>>

addIncorrect ==
    /\ correct + incorrect < MaxAdds
    /\ Called("addIncorrect", JsUndefined, FALSE)
    /\ incorrect' = incorrect + 1
    /\ addsIncorrect' = addsIncorrect + 1
    /\ UNCHANGED <<totalCards, correct, addsCorrect>>

\* reset that forgets the stored total when none is given
reset_dropsTotal(x) ==
    /\ Called("reset", x, x # JsUndefined /\ ~IsValidTotal(x))
    /\ IF x # JsUndefined /\ ~IsValidTotal(x)
       THEN UNCHANGED <<totalCards, correct, incorrect, addsCorrect, addsIncorrect>>
       ELSE /\ totalCards' = x.val
            /\ correct' = 0
            /\ incorrect' = 0
            /\ addsCorrect' = 0
            /\ addsIncorrect' = 0

reset(x) ==
    /\ Called("reset", x, x # JsUndefined /\ ~IsValidTotal(x))
    /\ IF x # JsUndefined /\ ~IsValidTotal(x)
       THEN UNCHANGED <<totalCards, correct, incorrect, addsCorrect, addsIncorrect>>
       ELSE /\ totalCards' = IF x # JsUndefined THEN x.val ELSE totalCards
            /\ correct' = 0
            /\ incorrect' = 0
            /\ addsCorrect' = 0
            /\ addsIncorrect' = 0

\* Math.max(0, n) without the clamp
MaxZero_noClamp(n) == n

\* Math.max(0, n)
MaxZero(n) == IF n > 0 THEN n ELSE 0

\* getAccuracy(), in hundredths of a percent
getAccuracy ==
    IF correct + incorrect = 0 THEN 0
    ELSE RoundedPercent(correct, correct + incorrect)

\* getScore() that counts every attempt as a card taken
getScore_remainingByAttempts ==
    [correct   |-> correct,
     incorrect |-> incorrect,
     remaining |-> MaxZero(totalCards - (correct + incorrect)),
     accuracy  |-> getAccuracy]

getScore ==
    [correct   |-> correct,
     incorrect |-> incorrect,
     remaining |-> MaxZero(totalCards - correct),
     accuracy  |-> getAccuracy]

\* getScoreData() of the engine, accuracy in hundredths of a percent
getScoreData ==
    [score          |-> score,
     incorrectCount |-> incorrectCount,
     remaining      |-> Len(remainingCards),
     accuracy       |-> IF score + incorrectCount > 0
                        THEN RoundedPercent(score, score + incorrectCount)
                        ELSE 0]

\* engine = new GameEngine(p): a throw leaves the variable engine as it was
newGameEngine(p) ==
    /\ Called("newGameEngine", p, ~p.isArray \/ Len(p.items) = 0)
    /\ UNCHANGED <<totalCards, correct, incorrect, addsCorrect, addsIncorrect>>
    /\ IF ~p.isArray \/ Len(p.items) = 0
       THEN UNCHANGED <<engineVars, resetFrom>>
       ELSE /\ allPoems' = p.items
            /\ remainingCards' = <<>>
            /\ readingOrder' = <<>>
            /\ currentRound' = 0
            /\ totalRounds' = 0
            /\ score' = 0
            /\ incorrectCount' = 0
            /\ gameOver' = FALSE
            /\ op' = "new"
            /\ arg' = 0
            /\ result' = NoResult
            /\ initialised' = FALSE
            /\ judged' = 0
            /\ resetFrom' = "none"

\* no accuracy has been read
AccuracyIdle ==
    /\ accCalled = "none"
    /\ accuracy = 0

\* what a caller holds before its first getGameState call
NoState ==
    [remainingCards |-> <<>>,
     currentPoem    |-> NullPoem,
     currentRound   |-> 0,
     totalRounds    |-> 0,
     score          |-> 0,
     incorrectCount |-> 0,
     isGameOver     |-> FALSE]

\* no state object is held
QueryIdle ==
    /\ held = NoState
    /\ heldShared = FALSE
    /\ returnedState = NoState
    /\ prevReturned = NoState
    /\ engineBefore = <<>>
    /\ qOp = "none"

\* no playthrough has begun
PlayIdle ==
    /\ advances = 0
    /\ prompted = <<>>

\* no validator has been called
ValidatorIdle ==
    /\ vInput = <<>>
    /\ vCalled = "none"
    /\ vResult = [valid |-> FALSE, errors |-> <<>>]
    /\ vIndex = 0
    /\ vSeen = [errors |-> <<>>, idSet |-> {}, duplicateIds |-> <<>>]

\* the document as served: only the start screen is displayed
ScreensIdle ==
    /\ startScreen = ""
    /\ gameScreen = "none"
    /\ gameOverScreen = "none"
    /\ finalScoreHTML = <<>>
    /\ uiOp = "none"

\* an empty choices container
NoChoices == [question |-> 0, correct_id |-> 0, disabled |-> TRUE]

\* the quiz page as loaded: the globals as declared, the start screen shown
QuizIdle ==
    /\ quizOrder = <<>>
    /\ current = 0
    /\ quizScore = 0
    /\ shown = "start-screen"
    /\ startFetches = 0
    /\ questionFetches = <<>>
    /\ choices = NoChoices
    /\ nextBtn = "none"
    /\ resultScore = <<>>
    /\ quizStarts = 0
    /\ quizOp = "none"

\* the page as loaded: start screen, no component created
PageLoaded ==
    /\ screen = "start"
    /\ isProcessing = FALSE
    /\ fetching = 0
    /\ starts = 0
    /\ engineGen = 0
    /\ field = <<>>
    /\ timers = <<>>
    /\ appOp = "none"
    /\ finalScore = [correct |-> 0, incorrect |-> 0, remaining |-> 0, accuracy |-> 0]

Init ==
    /\ EngineConstructed
    /\ ShuffleIdle
    /\ ScoreConstructed(0)
    /\ AccuracyIdle
    /\ PageLoaded
    /\ QueryIdle
    /\ PlayIdle
    /\ ScreensIdle
    /\ QuizIdle
    /\ ValidatorIdle

\* initGame that forgets to clear the incorrect count
initGame_keepsIncorrect ==
    \E d1, d2 \in RandomDraws(Len(allPoems)) :
        /\ readingOrder' = fisherYatesShuffle(allPoems, d1)
        /\ remainingCards' = fisherYatesShuffle(allPoems, d2)
        /\ totalRounds' = Len(readingOrder')
        /\ currentRound' = 0
        /\ score' = 0
        /\ gameOver' = FALSE
        /\ op' = "initGame"
        /\ arg' = 0
        /\ result' = NoResult
        /\ initialised' = TRUE
        /\ judged' = 0
        /\ UNCHANGED <<allPoems, incorrectCount>>

initGame ==
    \E d1, d2 \in RandomDraws(Len(allPoems)) :
        /\ readingOrder' = fisherYatesShuffle(allPoems, d1)
        /\ remainingCards' = fisherYatesShuffle(allPoems, d2)
        /\ totalRounds' = Len(readingOrder')
        /\ currentRound' = 0
        /\ score' = 0
        /\ incorrectCount' = 0
        /\ gameOver' = FALSE
        /\ op' = "initGame"
        /\ arg' = 0
        /\ result' = NoResult
        /\ initialised' = TRUE
        /\ judged' = 0
        /\ UNCHANGED allPoems

\* the pool after a correct pick: filter(card => card.id !== cardId)
RemoveCard(cards, cardId) == SelectSeq(cards, LAMBDA card : card.id # cardId)

\* selectCard that also takes a wrongly picked card off the field
selectCard_wrongPickRemoves(cardId) ==
    /\ gameOver \/ judged < MaxJudged
    /\ op' = "selectCard"
    /\ arg' = cardId
    /\ judged' = IF gameOver THEN judged ELSE judged + 1
    /\ UNCHANGED <<allPoems, readingOrder, currentRound, totalRounds, gameOver, initialised>>
    /\ IF gameOver \/ getCurrentReadingCard = NullPoem
       THEN /\ result' = Returned(FALSE, NullPoem, FALSE)
            /\ UNCHANGED <<score, incorrectCount, remainingCards>>
       ELSE /\ result' = Returned(cardId = getCurrentReadingCard.id, getCurrentReadingCard, FALSE)
            /\ remainingCards' = RemoveCard(remainingCards, cardId)
            /\ IF cardId = getCurrentReadingCard.id
               THEN /\ score' = score + 1
                    /\ UNCHANGED incorrectCount
               ELSE /\ incorrectCount' = incorrectCount + 1
                    /\ UNCHANGED score

\* selectCard that looks only at the round index, not at the game-over flag
selectCard_noOverGuard(cardId) ==
    /\ gameOver \/ judged < MaxJudged
    /\ op' = "selectCard"
    /\ arg' = cardId
    /\ judged' = IF gameOver THEN judged ELSE judged + 1
    /\ UNCHANGED <<allPoems, readingOrder, currentRound, totalRounds, gameOver, initialised>>
    /\ LET currentPoem == getCurrentReadingCardOf(FALSE, currentRound, totalRounds, readingOrder)
       IN  IF currentPoem = NullPoem
           THEN /\ result' = Returned(FALSE, NullPoem, FALSE)
                /\ UNCHANGED <<score, incorrectCount, remainingCards>>
           ELSE /\ result' = Returned(cardId = currentPoem.id, currentPoem, FALSE)
                /\ IF cardId = currentPoem.id
                   THEN /\ score' = score + 1
                        /\ remainingCards' = RemoveCard(remainingCards, cardId)
                        /\ UNCHANGED incorrectCount
                   ELSE /\ incorrectCount' = incorrectCount + 1
                        /\ UNCHANGED <<score, remainingCards>>

selectCard(cardId) ==
    /\ gameOver \/ judged < MaxJudged
    /\ op' = "selectCard"
    /\ arg' = cardId
    /\ judged' = IF gameOver THEN judged ELSE judged + 1
    /\ UNCHANGED <<allPoems, readingOrder, currentRound, totalRounds, gameOver, initialised>>
    /\ IF gameOver \/ getCurrentReadingCard = NullPoem
       THEN /\ result' = Returned(FALSE, NullPoem, FALSE)
            /\ UNCHANGED <<score, incorrectCount, remainingCards>>
       ELSE /\ result' = Returned(cardId = getCurrentReadingCard.id, getCurrentReadingCard, FALSE)
            /\ IF cardId = getCurrentReadingCard.id
               THEN /\ score' = score + 1
                    /\ remainingCards' = RemoveCard(remainingCards, cardId)
                    /\ UNCHANGED incorrectCount
               ELSE /\ incorrectCount' = incorrectCount + 1
                    /\ UNCHANGED <<score, remainingCards>>

\* the test with the empty-pool condition left out
RoundsOrPoolExhausted_roundsOnly(round, total, cards) == round >= total

\* the test with an off-by-one comparison
RoundsOrPoolExhausted_strict(round, total, cards) == round > total \/ Len(cards) = 0

\* the test nextRound makes after the increment
RoundsOrPoolExhausted(round, total, cards) == round >= total \/ Len(cards) = 0

\* nextRound without the early return on a finished game
nextRound_noOverGuard ==
    /\ op' = "nextRound"
    /\ arg' = 0
    /\ UNCHANGED <<allPoems, readingOrder, remainingCards, totalRounds, score,
                   incorrectCount, initialised, judged>>
    /\ currentRound' = IF currentRound < MaxPoems + 1 THEN currentRound + 1 ELSE currentRound
    /\ IF RoundsOrPoolExhausted(currentRound', totalRounds, remainingCards)
       THEN /\ gameOver' = TRUE
            /\ result' = Returned(FALSE, NullPoem, FALSE)
       ELSE /\ gameOver' = FALSE
            /\ result' = Returned(FALSE, NullPoem, TRUE)

nextRound ==
    /\ op' = "nextRound"
    /\ arg' = 0
    /\ UNCHANGED <<allPoems, readingOrder, remainingCards, totalRounds, score,
                   incorrectCount, initialised, judged>>
    /\ IF gameOver
       THEN /\ result' = Returned(FALSE, NullPoem, FALSE)
            /\ UNCHANGED <<currentRound, gameOver>>
       ELSE /\ currentRound' = currentRound + 1
            /\ IF RoundsOrPoolExhausted(currentRound', totalRounds, remainingCards)
               THEN /\ gameOver' = TRUE
                    /\ result' = Returned(FALSE, NullPoem, FALSE)
               ELSE /\ gameOver' = FALSE
                    /\ result' = Returned(FALSE, NullPoem, TRUE)

\* the kind of state a call finds the engine in
StateKind ==
    IF ~initialised THEN "new"
    ELSE IF gameOver THEN "over"
    ELSE IF judged > 0 \/ currentRound > 0 THEN "midgame"
    ELSE "fresh"

\* a caller of the engine alone: one method call, nothing else touched
CallInitGame ==
    /\ initGame
    /\ resetFrom' = StateKind
    /\ UNCHANGED <<shuffleVars, scoreVars, accVars, appVars, queryVars, playVars, validVars, uiVars, quizVars>>

CallSelectCard ==
    /\ \E cardId \in CardIds : selectCard(cardId)
    /\ UNCHANGED <<resetFrom, shuffleVars, scoreVars, accVars, appVars, queryVars, playVars, validVars, uiVars, quizVars>>

CallNextRound ==
    /\ nextRound
    /\ UNCHANGED <<resetFrom, shuffleVars, scoreVars, accVars, appVars, queryVars, playVars, validVars, uiVars, quizVars>>

Next ==
    \/ CallInitGame
    \/ CallSelectCard
    \/ CallNextRound

Spec == Init /\ [][Next]_vars

\* ------------------------------------------------- the shuffle on its own
InitShuffle ==
    /\ EngineConstructed
    /\ shArray \in ShuffleInputs
    /\ shInput = shArray
    /\ shReturned = <<>>
    /\ shCalled = FALSE
    /\ ScoreConstructed(0)
    /\ AccuracyIdle
    /\ PageLoaded
    /\ QueryIdle
    /\ PlayIdle
    /\ ScreensIdle
    /\ QuizIdle
    /\ ValidatorIdle

\* fisherYatesShuffle(shArray) with any outcome of the random draws
CallShuffle ==
    /\ \E draw \in RandomDraws(Len(shArray)) :
          /\ shReturned' = fisherYatesCall(shArray, draw).returned
          /\ shArray' = fisherYatesCall(shArray, draw).array
    /\ shInput' = shArray
    /\ shCalled' = TRUE
    /\ UNCHANGED <<engineVars, resetFrom, scoreVars, accVars, appVars, queryVars, playVars, validVars, uiVars, quizVars>>

NextShuffle ==
    \/ CallShuffle
    \/ CallInitGame

SpecShuffle == InitShuffle /\ [][NextShuffle]_vars

\* ------------------------------------------------- the ScoreManager on its own
InitScore ==
    /\ EngineConstructed
    /\ ShuffleIdle
    /\ \E n \in 0..MaxTotalCards : ScoreConstructed(n)
    /\ AccuracyIdle
    /\ PageLoaded
    /\ QueryIdle
    /\ PlayIdle
    /\ ScreensIdle
    /\ QuizIdle
    /\ ValidatorIdle

CallNewScoreManager ==
    /\ \E x \in TotalArgs : newScoreManager(x)
    /\ UNCHANGED <<engineVars, resetFrom, shuffleVars, accVars, appVars, queryVars, playVars, validVars, uiVars, quizVars>>

CallAddCorrect ==
    /\ addCorrect
    /\ UNCHANGED <<engineVars, resetFrom, shuffleVars, accVars, appVars, queryVars, playVars, validVars, uiVars, quizVars>>

CallAddIncorrect ==
    /\ addIncorrect
    /\ UNCHANGED <<engineVars, resetFrom, shuffleVars, accVars, appVars, queryVars, playVars, validVars, uiVars, quizVars>>

CallReset ==
    /\ \E x \in TotalArgs : reset(x)
    /\ UNCHANGED <<engineVars, resetFrom, shuffleVars, accVars, appVars, queryVars, playVars, validVars, uiVars, quizVars>>

CallNewGameEngine ==
    /\ \E p \in PoemsArgs : newGameEngine(p)
    /\ UNCHANGED <<shuffleVars, accVars, appVars, queryVars, playVars, validVars, uiVars, quizVars>>

NextScore ==
    \/ CallNewScoreManager
    \/ CallAddCorrect
    \/ CallAddIncorrect
    \/ CallReset
    \/ CallNewGameEngine

SpecScore == InitScore /\ [][NextScore]_vars

\* --------------------------------------------------- the accuracy computation
AccuracyTotals == (0..MaxSmallTotal) \cup { 32 * k : k \in 1..MaxTieBlocks }

\* a ScoreManager on which c addCorrect and i addIncorrect calls were made
ScoreAfterJudgments(c, i) ==
    /\ totalCards = 1
    /\ correct = c
    /\ incorrect = i
    /\ smOp = IF c > 0 THEN "addCorrect"
              ELSE IF i > 0 THEN "addIncorrect" ELSE "newScoreManager"
    /\ smArg = IF c + i > 0 THEN JsUndefined ELSE JsNumber(1)
    /\ threw = FALSE
    /\ smPrev = IF c > 0 THEN Fields(1, c - 1, i)
                ELSE IF i > 0 THEN Fields(1, c, i - 1) ELSE Fields(1, 0, 0)
    /\ addsCorrect = c
    /\ addsIncorrect = i

\* the engine of a one-poem game whose prompt was judged i times with a wrong
\* card and then c times with the right one
EngineAfterJudgments(c, i) ==
    /\ allPoems = <<Poem(1)>>
    /\ readingOrder = allPoems
    /\ remainingCards = IF c > 0 THEN <<>> ELSE allPoems
    /\ currentRound = 0
    /\ totalRounds = 1
    /\ score = c
    /\ incorrectCount = i
    /\ gameOver = FALSE
    /\ op = IF c + i > 0 THEN "selectCard" ELSE "initGame"
    /\ arg = IF c > 0 THEN 1 ELSE IF i > 0 THEN 2 ELSE 0
    /\ result = IF c + i > 0 THEN Returned(c > 0, Poem(1), FALSE) ELSE NoResult
    /\ initialised = TRUE
    /\ judged = c + i
    /\ resetFrom = "new"

InitAccuracy ==
    /\ \E total \in AccuracyTotals : \E c \in 0..total :
           /\ ScoreAfterJudgments(c, total - c)
           /\ EngineAfterJudgments(c, total - c)
    /\ ShuffleIdle
    /\ AccuracyIdle
    /\ PageLoaded
    /\ QueryIdle
    /\ PlayIdle
    /\ ScreensIdle
    /\ QuizIdle
    /\ ValidatorIdle

CallGetAccuracy ==
    /\ accCalled' = "getAccuracy"
    /\ accuracy' = getAccuracy
    /\ UNCHANGED <<engineVars, resetFrom, shuffleVars, scoreVars, appVars, queryVars, playVars, validVars, uiVars, quizVars>>

CallGetScoreData ==
    /\ accCalled' = "getScoreData"
    /\ accuracy' = getScoreData.accuracy
    /\ UNCHANGED <<engineVars, resetFrom, shuffleVars, scoreVars, appVars, queryVars, playVars, validVars, uiVars, quizVars>>

NextAccuracy ==
    \/ CallGetAccuracy
    \/ CallGetScoreData

SpecAccuracy == InitAccuracy /\ [][NextAccuracy]_vars

\* ----------------------------------------------------------- the page (app.js)
\* the arrays /api/poems answers with: catalogues with distinct ids
ServedCatalogues == { c \in Catalogues : DistinctIds(c) }

\* renderGameField(cards): one element per card, carrying the card's id
RenderedField(cards) == [i \in 1..Len(cards) |-> [id |-> cards[i].id, attached |-> TRUE]]

\* the elements the field held before innerHTML = '' are out of the document
Detached(ts) == [i \in 1..Len(ts) |-> [ts[i] EXCEPT !.element = 0]]

\* the sequence without its k-th entry
Without(seq, k) == [i \in 1..(Len(seq) - 1) |-> IF i < k THEN seq[i] ELSE seq[i + 1]]

InitApp ==
    /\ EngineConstructed
    /\ allPoems = <<Poem(1)>>
    /\ ShuffleIdle
    /\ ScoreConstructed(0)
    /\ AccuracyIdle
    /\ PageLoaded
    /\ QueryIdle
    /\ PlayIdle
    /\ ScreensIdle
    /\ QuizIdle
    /\ ValidatorIdle

\* a click on the start button or on the replay button
startGame ==
    /\ screen \in {"start", "over"}
    /\ starts < MaxStarts
    /\ starts' = starts + 1
    /\ fetching' = fetching + 1
    /\ appOp' = "startGame"
    /\ UNCHANGED <<screen, isProcessing, engineGen, field, timers, finalScore>>
    /\ UNCHANGED <<engineVars, resetFrom, shuffleVars, scoreVars, accVars, queryVars, playVars, validVars, uiVars, quizVars>>

\* new GameEngine(poems) followed by initGame()
StartedEngine(poems) ==
    \E d1, d2 \in RandomDraws(Len(poems)) :
        /\ allPoems' = poems
        /\ readingOrder' = fisherYatesShuffle(poems, d1)
        /\ remainingCards' = fisherYatesShuffle(poems, d2)
        /\ totalRounds' = Len(readingOrder')
        /\ currentRound' = 0
        /\ score' = 0
        /\ incorrectCount' = 0
        /\ gameOver' = FALSE
        /\ op' = "initGame"
        /\ arg' = 0
        /\ result' = NoResult
        /\ initialised' = TRUE
        /\ judged' = 0
        /\ resetFrom' = "new"

\* the then-callback of startGame: the fetch answered with poems
FetchSucceeds ==
    /\ fetching > 0
    /\ fetching' = fetching - 1
    /\ \E poems \in ServedCatalogues :
           /\ StartedEngine(poems)
           /\ newScoreManager(JsNumber(Len(poems)))
    /\ engineGen' = engineGen + 1
    /\ screen' = "game"
    /\ field' = RenderedField(remainingCards')
    /\ timers' = Detached(timers)
    /\ isProcessing' = FALSE
    /\ appOp' = "fetchSucceeds"
    /\ UNCHANGED <<starts, finalScore>>
    /\ UNCHANGED <<shuffleVars, accVars, queryVars, playVars, validVars, uiVars, quizVars>>

\* the catch-callback of startGame: showError shows the start screen
FetchFails ==
    /\ fetching > 0
    /\ fetching' = fetching - 1
    /\ screen' = "start"
    /\ appOp' = "fetchFails"
    /\ UNCHANGED <<isProcessing, starts, engineGen, field, timers, finalScore>>
    /\ UNCHANGED <<engineVars, resetFrom, shuffleVars, scoreVars, accVars, queryVars, playVars, validVars, uiVars, quizVars>>

\* the promise made by showCorrectFeedback or showIncorrectFeedback
Feedback(isCorrect, el) ==
    [kind |-> IF isCorrect THEN "correct" ELSE "incorrect",
     element |-> el, engine |-> engineGen, round |-> currentRound]

\* the click handler that records only the correct picks
handleCardClick_noIncorrect(el) ==
    /\ screen = "game"
    /\ field[el].attached
    /\ IF isProcessing
       THEN /\ appOp' = "clickIgnored"
            /\ UNCHANGED <<screen, isProcessing, fetching, starts, engineGen, field,
                           timers, finalScore>>
            /\ UNCHANGED <<engineVars, resetFrom, scoreVars>>
       ELSE /\ isProcessing' = TRUE
            /\ selectCard(field[el].id)
            /\ IF result'.correct THEN addCorrect ELSE UNCHANGED scoreVars
            /\ timers' = Append(timers, Feedback(result'.correct, el))
            /\ appOp' = "click"
            /\ UNCHANGED <<screen, fetching, starts, engineGen, field, finalScore>>
            /\ UNCHANGED resetFrom
    /\ UNCHANGED <<shuffleVars, accVars, queryVars, playVars, validVars, uiVars, quizVars>>

\* a click on the el-th card element of the field
handleCardClick(el) ==
    /\ screen = "game"
    /\ field[el].attached
    /\ IF isProcessing
       THEN /\ appOp' = "clickIgnored"
            /\ UNCHANGED <<screen, isProcessing, fetching, starts, engineGen, field,
                           timers, finalScore>>
            /\ UNCHANGED <<engineVars, resetFrom, scoreVars>>
       ELSE /\ isProcessing' = TRUE
            /\ selectCard(field[el].id)
            /\ IF result'.correct THEN addCorrect ELSE addIncorrect
            /\ timers' = Append(timers, Feedback(result'.correct, el))
            /\ appOp' = "click"
            /\ UNCHANGED <<screen, fetching, starts, engineGen, field, finalScore>>
            /\ UNCHANGED resetFrom
    /\ UNCHANGED <<shuffleVars, accVars, queryVars, playVars, validVars, uiVars, quizVars>>

\* removeCard: the element leaves the field if it is still in it
RemoveElement(f, el) == IF el = 0 THEN f ELSE [f EXCEPT ![el].attached = FALSE]

\* advanceToNextRound that leaves isProcessing set when the game goes on
correctFeedbackDone_staysBusy(k) ==
    /\ timers[k].kind = "correct"
    /\ timers' = Without(timers, k)
    /\ field' = RemoveElement(field, timers[k].element)
    /\ nextRound
    /\ IF result'.continues
       THEN UNCHANGED <<screen, finalScore>>
       ELSE /\ screen' = "over"
            /\ finalScore' = getScore
    /\ isProcessing' = result'.continues
    /\ appOp' = "advanceToNextRound"
    /\ UNCHANGED <<fetching, starts, engineGen>>
    /\ UNCHANGED <<resetFrom, shuffleVars, scoreVars, accVars, queryVars, playVars, validVars, uiVars, quizVars>>

\* the k-th pending promise is one of showCorrectFeedback and resolves:
\* the card is removed, then advanceToNextRound runs
correctFeedbackDone(k) ==
    /\ timers[k].kind = "correct"
    /\ timers' = Without(timers, k)
    /\ field' = RemoveElement(field, timers[k].element)
    /\ nextRound
    /\ IF result'.continues
       THEN UNCHANGED <<screen, finalScore>>
       ELSE /\ screen' = "over"
            /\ finalScore' = getScore
    /\ isProcessing' = FALSE
    /\ appOp' = "advanceToNextRound"
    /\ UNCHANGED <<fetching, starts, engineGen>>
    /\ UNCHANGED <<resetFrom, shuffleVars, scoreVars, accVars, queryVars, playVars, validVars, uiVars, quizVars>>

\* the k-th pending promise is one of showIncorrectFeedback and resolves
incorrectFeedbackDone(k) ==
    /\ timers[k].kind = "incorrect"
    /\ timers' = Without(timers, k)
    /\ isProcessing' = FALSE
    /\ appOp' = "incorrectFeedbackDone"
    /\ UNCHANGED <<screen, fetching, starts, engineGen, field, finalScore>>
    /\ UNCHANGED <<engineVars, resetFrom, shuffleVars, scoreVars, accVars, queryVars, playVars, validVars, uiVars, quizVars>>

ClickCard == \E el \in DOMAIN field : handleCardClick(el)

CorrectTimer == \E k \in DOMAIN timers : correctFeedbackDone(k)

IncorrectTimer == \E k \in DOMAIN timers : incorrectFeedbackDone(k)

NextApp ==
    \/ startGame
    \/ FetchSucceeds
    \/ FetchFails
    \/ ClickCard
    \/ CorrectTimer
    \/ IncorrectTimer

SpecApp == InitApp /\ [][NextApp]_vars

\* -------------------- the page with a player who clicks the matching card
\* a click on a card element that carries the id of the current prompt
ClickMatching ==
    \E el \in DOMAIN field :
        /\ field[el].id = getCurrentReadingCard.id
        /\ handleCardClick(el)

NextAppLive ==
    \/ startGame
    \/ FetchSucceeds
    \/ ClickMatching
    \/ CorrectTimer

\* every pending fetch delivers the poems, every feedback timer fires, and
\* the player clicks the matching card whenever the page shows one
SpecAppLive ==
    /\ InitApp
    /\ [][NextAppLive]_vars
    /\ WF_vars(FetchSucceeds)
    /\ WF_vars(CorrectTimer)
    /\ WF_vars(ClickMatching)

\* ------------------------------------------------ a caller of getGameState
\* the returned remainingCards is the engine's array itself
ReturnsCopy_sameArray == FALSE

\* the returned remainingCards is made by slice()
ReturnsCopy == TRUE

\* state = engine.getGameState()
QueryGetGameState ==
    /\ qOp' = IF qOp \in {"getGameState", "getGameStateAgain"}
              THEN "getGameStateAgain" ELSE "getGameState"
    /\ prevReturned' = returnedState
    /\ returnedState' = getGameState
    /\ held' = getGameState
    /\ heldShared' = ~ReturnsCopy
    /\ engineBefore' = engine
    /\ UNCHANGED <<engineVars, resetFrom, shuffleVars, scoreVars, accVars, appVars, playVars, validVars, uiVars, quizVars>>

\* the arrays one push or one pop makes of cards
Mutations(cards) ==
    {Append(cards, Poem(1))}
        \cup (IF Len(cards) > 0 THEN {SubSeq(cards, 1, Len(cards) - 1)} ELSE {})

\* state.remainingCards.push(poem) or state.remainingCards.pop() by the caller:
\* an array shared with the engine changes for the engine too
MutateHeld ==
    /\ qOp \in {"getGameState", "getGameStateAgain"}
    /\ \E cards \in Mutations(held.remainingCards) :
           /\ held' = [held EXCEPT !.remainingCards = cards]
           /\ remainingCards' = IF heldShared THEN cards ELSE remainingCards
    /\ qOp' = "mutate"
    /\ engineBefore' = engine
    /\ UNCHANGED <<heldShared, returnedState, prevReturned>>
    /\ UNCHANGED <<allPoems, readingOrder, currentRound, totalRounds, score,
                   incorrectCount, gameOver, op, arg, result, initialised, judged>>
    /\ UNCHANGED <<resetFrom, shuffleVars, scoreVars, accVars, appVars, playVars, validVars, uiVars, quizVars>>

\* the caller lets go of the state object
DropState ==
    /\ qOp \notin {"none", "dropped"}
    /\ held' = NoState
    /\ heldShared' = FALSE
    /\ returnedState' = NoState
    /\ prevReturned' = NoState
    /\ engineBefore' = <<>>
    /\ qOp' = "dropped"
    /\ UNCHANGED <<engineVars, resetFrom, shuffleVars, scoreVars, accVars, appVars, playVars, validVars, uiVars, quizVars>>

\* the caller calls the engine while it holds no state object
QueryInitGame == qOp \in {"none", "dropped"} /\ CallInitGame

QuerySelectCard == qOp \in {"none", "dropped"} /\ CallSelectCard

QueryNextRound == qOp \in {"none", "dropped"} /\ CallNextRound

NextQuery ==
    \/ QueryInitGame
    \/ QuerySelectCard
    \/ QueryNextRound
    \/ QueryGetGameState
    \/ MutateHeld
    \/ DropState

SpecQuery == Init /\ [][NextQuery]_vars

\* ------------------------------------------------ one playthrough of a game
\* getCurrentReadingCard() after the step
NextPrompt == getCurrentReadingCardOf(gameOver', currentRound', totalRounds', readingOrder')

PlayInitGame ==
    /\ initGame
    /\ resetFrom' = StateKind
    /\ advances' = 0
    /\ prompted' = <<NextPrompt>>
    /\ UNCHANGED <<shuffleVars, scoreVars, accVars, appVars, queryVars, validVars, uiVars, quizVars>>

PlaySelectCard ==
    /\ \E cardId \in CardIds : selectCard(cardId)
    /\ UNCHANGED <<resetFrom, shuffleVars, scoreVars, accVars, appVars, queryVars, playVars, validVars, uiVars, quizVars>>

\* nextRound(), called at most once more than there are poems
PlayNextRound ==
    /\ advances <= MaxPoems
    /\ nextRound
    /\ advances' = advances + 1
    /\ prompted' = IF result'.continues THEN Append(prompted, NextPrompt) ELSE prompted
    /\ UNCHANGED <<resetFrom, shuffleVars, scoreVars, accVars, appVars, queryVars, validVars, uiVars, quizVars>>

NextPlay ==
    \/ PlayInitGame
    \/ PlaySelectCard
    \/ PlayNextRound

SpecPlay == Init /\ [][NextPlay]_vars

\* ------------------------------------------------------------- validatePoem
IdValues ==
    {IdMissing, IdInt(0), IdInt(1), IdInt(100), IdInt(101), IdFraction(1), IdString(1)}

TextValues == {TextMissing, TextNull, TextNumber, TextEmpty, TextBlank, TextOf(3)}

\* the values validatePoem is tried on
PoemCandidates ==
    {NotAnObject, AnArray}
        \cup { Candidate(TRUE, FALSE, id, author, upper, lower) :
                  id \in IdValues, author \in TextValues,
                  upper \in TextValues, lower \in TextValues }

\* everything but the validator input is as loaded
OnlyValidator ==
    /\ EngineConstructed
    /\ allPoems = <<Poem(1)>>
    /\ ShuffleIdle
    /\ ScoreConstructed(0)
    /\ AccuracyIdle
    /\ PageLoaded
    /\ QueryIdle
    /\ PlayIdle
    /\ ScreensIdle
    /\ QuizIdle
    /\ vCalled = "none"
    /\ vResult = [valid |-> FALSE, errors |-> <<>>]
    /\ vIndex = 0
    /\ vSeen = [errors |-> <<>>, idSet |-> {}, duplicateIds |-> <<>>]

InitPoem ==
    /\ OnlyValidator
    /\ vInput \in PoemCandidates

CallValidatePoem ==
    /\ vCalled' = "validatePoem"
    /\ vResult' = validatePoem(vInput)
    /\ UNCHANGED <<vInput, vIndex, vSeen>>
    /\ UNCHANGED <<engineVars, resetFrom, shuffleVars, scoreVars, accVars, appVars,
                   queryVars, playVars, uiVars, quizVars>>

NextPoem == CallValidatePoem

SpecPoem == InitPoem /\ [][NextPoem]_vars

\* --------------------------------------------------- validatePoemCollection
\* the array createValidCollection makes, cut or extended to n poems; the
\* 101st poem has id 1 again
ValidCollection(n) == [i \in 1..n |-> ValidPoem(IF i <= 100 THEN i ELSE 1)]

\* what a place of the collection may hold instead
Replacements ==
    <<NotAnObject,
      AnArray,
      ValidPoem(1),
      ValidPoem(101),
      Candidate(TRUE, FALSE, IdFraction(1), TextOf(3), TextOf(4), TextOf(4)),
      Candidate(TRUE, FALSE, IdString(1), TextOf(3), TextOf(4), TextOf(4)),
      Candidate(TRUE, FALSE, IdMissing, TextOf(3), TextOf(4), TextOf(4)),
      Candidate(TRUE, FALSE, IdInt(2), TextBlank, TextOf(4), TextOf(4))>>

CollectionLengths == {0, 99, 100, 101}

EditPlaces(n) == ((1..MaxEdited) \cup {n}) \cap (1..n)

\* the valid collection with the places of e that are not 0 replaced
Edited(n, e) ==
    [i \in 1..n |-> IF i \in DOMAIN e /\ e[i] # 0 THEN Replacements[e[i]]
                    ELSE ValidCollection(n)[i]]

\* the values validatePoemCollection is tried on
CollectionCandidates ==
    {[isArray |-> FALSE, items |-> <<>>]}
        \cup UNION { { [isArray |-> TRUE, items |-> Edited(n, e)] :
                          e \in [EditPlaces(n) -> 0..Len(Replacements)] } :
                      n \in CollectionLengths }

InitCollection ==
    /\ OnlyValidator
    /\ vInput \in CollectionCandidates

\* validatePoemCollection(vInput) up to the loop; a value that is not an
\* array is answered at once
StartValidatePoemCollection ==
    /\ vCalled = "none"
    /\ IF ~vInput.isArray
       THEN /\ vCalled' = "validatePoemCollection"
            /\ vResult' = [valid |-> FALSE,
                           errors |-> <<Message(0 - 1, "collection", "must be an array",
                                                <<>>, 0)>>]
            /\ UNCHANGED vSeen
       ELSE /\ vCalled' = "forEach"
            /\ vSeen' = [errors |-> SizeErrors(Len(vInput.items)), idSet |-> {},
                         duplicateIds |-> <<>>]
            /\ UNCHANGED vResult
    /\ vIndex' = 0
    /\ UNCHANGED vInput
    /\ UNCHANGED <<engineVars, resetFrom, shuffleVars, scoreVars, accVars, appVars,
                   queryVars, playVars, uiVars, quizVars>>

\* one pass of the forEach callback
VisitNextPoem ==
    /\ vCalled = "forEach"
    /\ vIndex < Len(vInput.items)
    /\ vSeen' = VisitPoem(vSeen, vInput.items[vIndex + 1], vIndex)
    /\ vIndex' = vIndex + 1
    /\ UNCHANGED <<vInput, vCalled, vResult>>
    /\ UNCHANGED <<engineVars, resetFrom, shuffleVars, scoreVars, accVars, appVars,
                   queryVars, playVars, uiVars, quizVars>>

\* the loop is through: the duplicate message and the return
ReturnFromValidatePoemCollection ==
    /\ vCalled = "forEach"
    /\ vIndex = Len(vInput.items)
    /\ vCalled' = "validatePoemCollection"
    /\ vResult' = Outcome(WithDuplicates(vSeen))
    /\ UNCHANGED <<vInput, vIndex, vSeen>>
    /\ UNCHANGED <<engineVars, resetFrom, shuffleVars, scoreVars, accVars, appVars,
                   queryVars, playVars, uiVars, quizVars>>

NextCollection ==
    \/ StartValidatePoemCollection
    \/ VisitNextPoem
    \/ ReturnFromValidatePoemCollection

SpecCollection == InitCollection /\ [][NextCollection]_vars

\* ------------------------------------------- UIRenderer: the three screens
\* the largest number of correct answers a final score is drawn with
MaxShown == 9

\* the accuracies a final score is drawn with, in hundredths of a percent
ShownAccuracies == {0, 8889, 10000}

\* ScoreData objects handed to renderGameOver
ScoreDatas == [correct : 0..MaxShown, accuracy : ShownAccuracies]

InitScreens ==
    /\ EngineConstructed
    /\ allPoems = <<Poem(1)>>
    /\ ShuffleIdle
    /\ ScoreConstructed(0)
    /\ AccuracyIdle
    /\ PageLoaded
    /\ QueryIdle
    /\ PlayIdle
    /\ ScreensIdle
    /\ QuizIdle
    /\ ValidatorIdle

showStartScreen ==
    /\ startScreen' = ""
    /\ gameScreen' = "none"
    /\ gameOverScreen' = "none"

\* showGameScreen that leaves the game-over screen as it is
showGameScreen_keepsGameOver ==
    /\ startScreen' = "none"
    /\ gameScreen' = ""
    /\ gameOverScreen' = gameOverScreen

showGameScreen ==
    /\ startScreen' = "none"
    /\ gameScreen' = ""
    /\ gameOverScreen' = "none"

showGameOverScreen ==
    /\ startScreen' = "none"
    /\ gameScreen' = "none"
    /\ gameOverScreen' = ""

\* the two numbers renderGameOver concatenates into the final score box
FinalScoreMarkup(data) == <<data.correct, data.accuracy>>

renderGameOver(data) ==
    /\ finalScoreHTML' = FinalScoreMarkup(data)
    /\ showGameOverScreen

CallShowStartScreen ==
    /\ showStartScreen
    /\ uiOp' = "showStartScreen"
    /\ UNCHANGED finalScoreHTML
    /\ UNCHANGED <<engineVars, resetFrom, shuffleVars, scoreVars, accVars, appVars,
                   queryVars, playVars, validVars, quizVars>>

CallShowGameScreen ==
    /\ showGameScreen
    /\ uiOp' = "showGameScreen"
    /\ UNCHANGED finalScoreHTML
    /\ UNCHANGED <<engineVars, resetFrom, shuffleVars, scoreVars, accVars, appVars,
                   queryVars, playVars, validVars, quizVars>>

CallShowGameOverScreen ==
    /\ showGameOverScreen
    /\ uiOp' = "showGameOverScreen"
    /\ UNCHANGED finalScoreHTML
    /\ UNCHANGED <<engineVars, resetFrom, shuffleVars, scoreVars, accVars, appVars,
                   queryVars, playVars, validVars, quizVars>>

CallRenderGameOver ==
    /\ \E data \in ScoreDatas : renderGameOver(data)
    /\ uiOp' = "renderGameOver"
    /\ UNCHANGED <<engineVars, resetFrom, shuffleVars, scoreVars, accVars, appVars,
                   queryVars, playVars, validVars, quizVars>>

NextScreens ==
    \/ CallShowStartScreen
    \/ CallShowGameScreen
    \/ CallShowGameOverScreen
    \/ CallRenderGameOver

SpecScreens == InitScreens /\ [][NextScreens]_vars

\* ------------------------------------------------ the minimal quiz variant
\* let total = 10: the questions of one game
quizTotal == 10

\* the most startGame calls of one behaviour
MaxQuizStarts == 2

\* the most fetches of /api/question pending at one time
MaxPendingQuestions == 2

\* data.order as served: at least total indices, in one of two arrangements
ServedOrders ==
    {[n \in 1..(quizTotal + 1) |-> n],
     [n \in 1..(quizTotal + 1) |-> quizTotal + 2 - n]}

\* data.order.slice(0, total)
Slice(served) == SubSeq(served, 1, IF Len(served) < quizTotal THEN Len(served) ELSE quizTotal)

\* the ids on the buttons of one question: the correct one and another
ChoiceIds(question) == {question, (question % quizTotal) + 1}

InitQuiz ==
    /\ EngineConstructed
    /\ allPoems = <<Poem(1)>>
    /\ ShuffleIdle
    /\ ScoreConstructed(0)
    /\ AccuracyIdle
    /\ PageLoaded
    /\ QueryIdle
    /\ PlayIdle
    /\ ScreensIdle
    /\ QuizIdle
    /\ ValidatorIdle

\* loadQuestion up to its first await: idx is read and the fetch is sent
loadQuestion(pending, served, position) == Append(pending, served[position + 1])

\* startGame up to its first await, called from the start or result screen
quizStartGame ==
    /\ shown \in {"start-screen", "result-screen"}
    /\ quizStarts < MaxQuizStarts
    /\ quizStarts' = quizStarts + 1
    /\ startFetches' = startFetches + 1
    /\ quizOp' = "startGame"
    /\ UNCHANGED <<quizOrder, current, quizScore, shown, questionFetches, choices,
                   nextBtn, resultScore>>
    /\ UNCHANGED <<engineVars, resetFrom, shuffleVars, scoreVars, accVars, appVars,
                   queryVars, playVars, uiVars, validVars>>

\* a fetch of /api/start resolves and startGame runs to its end
startFetched ==
    /\ startFetches > 0
    /\ Len(questionFetches) < MaxPendingQuestions
    /\ \E served \in ServedOrders :
           /\ quizOrder' = Slice(served)
           /\ questionFetches' = loadQuestion(questionFetches, Slice(served), 0)
    /\ startFetches' = startFetches - 1
    /\ current' = 0
    /\ quizScore' = 0
    /\ shown' = "game-screen"
    /\ quizOp' = "startFetched"
    /\ UNCHANGED <<choices, nextBtn, resultScore, quizStarts>>
    /\ UNCHANGED <<engineVars, resetFrom, shuffleVars, scoreVars, accVars, appVars,
                   queryVars, playVars, uiVars, validVars>>

\* the k-th fetch of /api/question resolves and loadQuestion runs to its end
questionFetched(k) ==
    /\ questionFetches' = Without(questionFetches, k)
    /\ nextBtn' = "none"
    /\ choices' = [question |-> questionFetches[k],
                   correct_id |-> questionFetches[k],
                   disabled |-> FALSE]
    /\ quizOp' = "loadQuestion"
    /\ UNCHANGED <<quizOrder, current, quizScore, shown, startFetches, resultScore,
                   quizStarts>>
    /\ UNCHANGED <<engineVars, resetFrom, shuffleVars, scoreVars, accVars, appVars,
                   queryVars, playVars, uiVars, validVars>>

QuestionFetched == \E k \in DOMAIN questionFetches : questionFetched(k)

\* a click on a choice button that still has its onclick
answer(selectedId, correctId) ==
    /\ choices' = [choices EXCEPT !.disabled = TRUE]
    /\ quizScore' = IF selectedId = correctId THEN quizScore + 1 ELSE quizScore
    /\ nextBtn' = "inline-block"
    /\ quizOp' = IF selectedId = correctId THEN "answerCorrect" ELSE "answerWrong"
    /\ UNCHANGED <<quizOrder, current, shown, startFetches, questionFetches,
                   resultScore, quizStarts>>
    /\ UNCHANGED <<engineVars, resetFrom, shuffleVars, scoreVars, accVars, appVars,
                   queryVars, playVars, uiVars, validVars>>

ClickChoice ==
    /\ shown = "game-screen"
    /\ ~choices.disabled
    /\ \E selectedId \in ChoiceIds(choices.question) :
           answer(selectedId, choices.correct_id)

\* a click on next-btn while it is displayed
nextQuestion ==
    /\ shown = "game-screen"
    /\ nextBtn = "inline-block"
    /\ current' = current + 1
    /\ IF current + 1 >= quizTotal
       THEN /\ shown' = "result-screen"
            /\ resultScore' = <<quizScore, quizTotal>>
            /\ UNCHANGED questionFetches
       ELSE /\ Len(questionFetches) < MaxPendingQuestions
            /\ questionFetches' = loadQuestion(questionFetches, quizOrder, current + 1)
            /\ UNCHANGED <<shown, resultScore>>
    /\ quizOp' = "nextQuestion"
    /\ UNCHANGED <<quizOrder, quizScore, startFetches, choices, nextBtn, quizStarts>>
    /\ UNCHANGED <<engineVars, resetFrom, shuffleVars, scoreVars, accVars, appVars,
                   queryVars, playVars, uiVars, validVars>>

NextQuiz ==
    \/ quizStartGame
    \/ startFetched
    \/ QuestionFetched
    \/ ClickChoice
    \/ nextQuestion

SpecQuiz == InitQuiz /\ [][NextQuiz]_vars



\* ---------------------------------------------------------------- properties
InCatalogue(poem) == \E i \in 1..Len(allPoems) : allPoems[i].id = poem.id

\* C1: after initGame, score + incorrectCount equals the number of selectCard
\* calls made while the game was not over, counted since the last initGame.
C1_ScoreCountsJudged == initialised => score + incorrectCount = judged

\* a finished game with right and wrong picks, on which selectCard was called again
C1_Witness ==
    /\ initialised /\ gameOver /\ op = "selectCard"
    /\ score >= 1 /\ incorrectCount >= 1

\* C2: once isGameOver() is true, every selectCard and every nextRound call
\* leaves the pool, the round index, score, incorrectCount and the flag as
\* they were.
C2_NoMutationAfterGameOver ==
    [][(gameOver /\ op' \in {"selectCard", "nextRound"}) =>
          /\ remainingCards' = remainingCards
          /\ currentRound' = currentRound
          /\ score' = score
          /\ incorrectCount' = incorrectCount
          /\ gameOver' = gameOver]_vars

\* selectCard was called on a finished game that still has cards on the field
C2_Witness ==
    /\ gameOver /\ op = "selectCard" /\ Len(remainingCards) > 0
    /\ currentRound = totalRounds /\ initialised

\* C3: the currentRound reported by getGameState() is at least 1 and never
\* exceeds totalRounds (stated for the states after initGame; the engine as
\* constructed reports round 1 of 0).
C3_RoundWithinTotal ==
    initialised =>
        /\ getGameState.currentRound >= 1
        /\ getGameState.currentRound <= getGameState.totalRounds

\* C4 as claimed: after initGame, an empty pool or an exhausted round index
\* means isGameOver() is true.
C4_OverAsSoonAsEither ==
    initialised =>
        ((Len(remainingCards) = 0 \/ currentRound >= totalRounds) => isGameOver)

\* C4 as amended: after initGame an exhausted round index means the game is
\* over, and an empty pool means it is over once nextRound has been called.
C4_OverAtNextRound ==
    initialised =>
        /\ currentRound >= totalRounds => isGameOver
        /\ (op = "nextRound" /\ Len(remainingCards) = 0) => isGameOver

\* nextRound ended the game on an empty pool with rounds still to go
C4_Witness ==
    /\ initialised /\ op = "nextRound" /\ Len(remainingCards) = 0
    /\ currentRound < totalRounds /\ isGameOver

\* the two halves of C5 for one state
PromptNullIffOver ==
    /\ getCurrentReadingCard = NullPoem <=> isGameOver
    /\ getCurrentReadingCard # NullPoem => InCatalogue(getCurrentReadingCard)

C6_PoolDistinctSubset ==
    DistinctIds(allPoems) =>
        /\ DistinctIds(remainingCards)
        /\ \A i \in 1..Len(remainingCards) :
               \E j \in 1..Len(allPoems) : remainingCards[i] = allPoems[j]

\* a distinct-id game in which a correct pick has left one card on the field
C6_Witness ==
    /\ DistinctIds(allPoems) /\ initialised /\ Len(allPoems) >= 2
    /\ Len(remainingCards) = 1 /\ score >= 1

\* C7: nextRound on a game that is not over adds one to the round index,
\* returns false and ends the game exactly when the new index has reached
\* totalRounds or the pool is empty, returns true otherwise, and leaves
\* score, incorrectCount and the pool alone.
C7_NextRoundEffect ==
    [][(~gameOver /\ op' = "nextRound") =>
          /\ currentRound' = currentRound + 1
          /\ gameOver' <=> (currentRound' >= totalRounds' \/ Len(remainingCards') = 0)
          /\ result'.continues <=> ~gameOver'
          /\ score' = score
          /\ incorrectCount' = incorrectCount
          /\ remainingCards' = remainingCards]_vars

\* nextRound returned true in the middle of a game
C7_Witness ==
    /\ initialised /\ op = "nextRound" /\ result.continues /\ ~gameOver
    /\ currentRound >= 1 /\ currentRound < totalRounds

\* C8: in a game in progress on distinct ids, selectCard with the prompt's id
\* returns correct: true, adds one to score, takes exactly one card off the
\* pool and leaves no card with that id in it.
C8_CorrectPickRemovesOne ==
    [][(/\ op' = "selectCard"
        /\ DistinctIds(allPoems)
        /\ getCurrentReadingCard # NullPoem
        /\ arg' = getCurrentReadingCard.id) =>
          /\ result'.correct
          /\ score' = score + 1
          /\ Len(remainingCards') = Len(remainingCards) - 1
          /\ \A i \in 1..Len(remainingCards') : remainingCards'[i].id # arg']_vars

\* C9: in a game in progress, selectCard with an id other than the prompt's
\* adds one to incorrectCount, leaves score, pool, round index and flag alone
\* and returns correct: false with the current prompt.
C9_WrongPickEffect ==
    [][(/\ op' = "selectCard"
        /\ getCurrentReadingCard # NullPoem
        /\ arg' # getCurrentReadingCard.id) =>
          /\ incorrectCount' = incorrectCount + 1
          /\ score' = score
          /\ remainingCards' = remainingCards
          /\ currentRound' = currentRound
          /\ gameOver' = gameOver
          /\ result'.correct = FALSE
          /\ result'.correctCard = getCurrentReadingCard]_vars

\* a wrong pick of a card that lies on the field was judged
C9_Witness ==
    /\ op = "selectCard" /\ ~gameOver /\ ~result.correct
    /\ result.correctCard # NullPoem /\ result.correctCard.id # arg
    /\ \E i \in 1..Len(remainingCards) : remainingCards[i].id = arg

\* C10: selectCard on a finished game returns {correct: false,
\* correctCard: null} whatever the id.
C10_SelectAfterOver ==
    (gameOver /\ op = "selectCard") => result = Returned(FALSE, NullPoem, FALSE)

\* selectCard was called on a finished game with the id of a card on the field
C10_Witness ==
    /\ gameOver /\ op = "selectCard"
    /\ \E i \in 1..Len(remainingCards) : remainingCards[i].id = arg
    /\ result = Returned(FALSE, NullPoem, FALSE)

\* the number of positions of a at which x stands
RECURSIVE Count(_, _)
Count(a, x) ==
    IF Len(a) = 0 THEN 0 ELSE (IF a[1] = x THEN 1 ELSE 0) + Count(Tail(a), x)

Elements(a) == { a[i] : i \in 1..Len(a) }

\* a and b hold the same elements with the same multiplicities
IsPermutation(a, b) ==
    /\ Len(a) = Len(b)
    /\ \A x \in Elements(a) \cup Elements(b) : Count(a, x) = Count(b, x)

\* C11: initGame, called in any state, leaves round 1, score 0, incorrectCount
\* 0, the game not over, totalRounds equal to the number of poems and every
\* poem of the catalogue in the pool.
C11_InitGameResets ==
    op = "initGame" =>
        /\ getGameState.currentRound = 1
        /\ getGameState.score = 0
        /\ getGameState.incorrectCount = 0
        /\ getGameState.isGameOver = FALSE
        /\ getGameState.totalRounds = Len(allPoems)
        /\ IsPermutation(getGameState.remainingCards, allPoems)

\* initGame was called on a finished game
C11_Witness ==
    /\ op = "initGame" /\ resetFrom = "over" /\ Len(remainingCards) = MaxPoems

TenCardsSevenThree ==
    /\ totalCards = 10
    /\ addsCorrect = 7
    /\ addsIncorrect = 3

\* C13 as stated: in a 10-card game with 7 correct and 3 incorrect judgments
\* the final score data is 7 correct, 3 incorrect, 0 remaining and 70 percent.
C13_TenCardFinalScore ==
    TenCardsSevenThree =>
        getScore = [correct |-> 7, incorrect |-> 3, remaining |-> 0, accuracy |-> 7000]

\* C13 amended: in a 10-card game with 7 correct and 3 incorrect judgments, in
\* any order, the final score data is 7 correct, 3 incorrect, 3 remaining (only
\* correct answers take a card) and 70 percent.
C13_TenCardThreeRemain ==
    TenCardsSevenThree =>
        getScore = [correct |-> 7, incorrect |-> 3, remaining |-> 3, accuracy |-> 7000]

C13_Witness ==
    /\ TenCardsSevenThree
    /\ smOp = "addCorrect"
    /\ getScore.remaining = 3

C16_ResetZeroes ==
    (smOp = "reset" /\ ~threw) =>
        /\ correct = 0
        /\ incorrect = 0
        /\ totalCards = IF smArg = JsUndefined THEN smPrev.totalCards ELSE smArg.val
        /\ getScore = [correct |-> 0, incorrect |-> 0,
                       remaining |-> totalCards, accuracy |-> 0]

C16_Witness ==
    /\ smOp = "reset"
    /\ smArg = JsUndefined
    /\ smPrev.correct > 0
    /\ smPrev.incorrect > 0
    /\ totalCards > 0

C15_AccuracyRounded ==
    accCalled # "none" =>
        /\ accuracy = IF correct + incorrect = 0 THEN 0
                      ELSE RoundedPercent_exact(correct, correct + incorrect)
        /\ accuracy >= 0
        /\ accuracy <= 10000

\* a non-negative integer, as the claim words it
NonNegativeInteger(x) == x.kind = "number" /\ x.int /\ x.val >= 0

\* C18: new ScoreManager(x) and reset(x) throw when x is supplied and is not a
\* non-negative integer, new GameEngine(p) throws when p is empty or not an
\* array, and a call that threw left correct, incorrect and totalCards alone.
C18_InvalidRejected ==
    /\ (smOp \in {"newScoreManager", "reset"}
            /\ smArg # JsUndefined /\ ~NonNegativeInteger(smArg)) => threw
    /\ (smOp = "newGameEngine" /\ (~smArg.isArray \/ smArg.items = <<>>)) => threw
    /\ threw => Fields(totalCards, correct, incorrect) = smPrev

C18_Witness ==
    /\ smOp = "reset"
    /\ smArg = JsNumber(0 - 5)
    /\ threw
    /\ correct > 0
    /\ incorrect > 0

\* C19: a card click the page processes makes one selectCard call and then
\* one ScoreManager call matching its result (addCorrect on a correct pick,
\* addIncorrect otherwise), so after it ScoreManager.correct equals the
\* engine's score and ScoreManager.incorrect equals its incorrectCount.
C19_ClickScoresOnce ==
    appOp = "click" =>
        /\ op = "selectCard"
        /\ smOp = IF result.correct THEN "addCorrect" ELSE "addIncorrect"
        /\ correct + incorrect = smPrev.correct + smPrev.incorrect + 1
        /\ correct = score
        /\ incorrect = incorrectCount

C19_Witness ==
    /\ appOp = "click"
    /\ engineGen = 2
    /\ result.correct
    /\ incorrect > 0
    /\ Len(timers) > 1

C23_OverAtNthNextRound ==
    (initialised /\ DistinctIds(allPoems)) =>
        /\ gameOver <=> advances >= Len(allPoems)
        /\ (op = "nextRound" /\ advances = Len(allPoems)) =>
               /\ ~result.continues
               /\ isGameOver
               /\ getCurrentReadingCard = NullPoem

C23_Witness ==
    /\ op = "nextRound"
    /\ DistinctIds(allPoems)
    /\ Len(allPoems) >= 2
    /\ advances = Len(allPoems)
    /\ gameOver
    /\ score = 0
    /\ incorrectCount > 0

\* no entry of the sequence occurs twice
NoRepeat(seq) == \A i, j \in 1..Len(seq) : seq[i] = seq[j] => i = j

Matching(seq, Test(_)) == { k \in 1..Len(seq) : Test(seq[k]) }

\* the records validatePoem accepts, as the claims describe them
GoodId(id) == id.kind = "int" /\ id.val >= 1 /\ id.val <= 100
GoodText(text) == text.kind = "string" /\ text.trimmed > 0
GoodPoem(poem) ==
    /\ poem.isObject
    /\ ~poem.isArray
    /\ GoodId(poem.id)
    /\ GoodText(poem.author)
    /\ GoodText(poem.upperVerse)
    /\ GoodText(poem.lowerVerse)

\* the field of a candidate is invalid
BadField(poem, name) ==
    CASE name = "id"         -> ~GoodId(poem.id)
      [] name = "author"     -> ~GoodText(poem.author)
      [] name = "upperVerse" -> ~GoodText(poem.upperVerse)
      [] name = "lowerVerse" -> ~GoodText(poem.lowerVerse)

PoemFields == {"id", "author", "upperVerse", "lowerVerse"}

\* C22: for a non-null, non-array object validatePoem reports one error for
\* each of the fields id, author, upperVerse, lowerVerse that is invalid and
\* none for the others, and valid is true exactly when there is no error.
C22_EveryBadFieldReported ==
    (vCalled = "validatePoem" /\ vInput.isObject /\ ~vInput.isArray) =>
        /\ \A name \in PoemFields :
               Cardinality(Matching(vResult.errors, LAMBDA m : m.field = name))
                   = IF BadField(vInput, name) THEN 1 ELSE 0
        /\ \A k \in 1..Len(vResult.errors) : vResult.errors[k].field \in PoemFields
        /\ vResult.valid <=> Len(vResult.errors) = 0

C22_Witness ==
    /\ vCalled = "validatePoem"
    /\ vInput.isObject
    /\ ~vInput.isArray
    /\ Len(vResult.errors) = 4
    /\ ~vResult.valid

\* two places of the collection carry the same id value
SameId(items, i, j) == i # j /\ items[i].id.kind # "undefined" /\ items[i].id = items[j].id

\* an error of the result is a duplicate-id message naming the id
NamedAsDuplicate(id) ==
    \E k \in 1..Len(vResult.errors) :
        /\ vResult.errors[k].rule = "Duplicate poem IDs found"
        /\ \E d \in 1..Len(vResult.errors[k].ids) : vResult.errors[k].ids[d] = id

\* valid is true exactly for an array of 100 accepted records with pairwise
\* distinct ids
ValidIffComplete ==
    vResult.valid <=>
        /\ vInput.isArray
        /\ Len(vInput.items) = 100
        /\ \A i \in 1..Len(vInput.items) : GoodPoem(vInput.items[i])
        /\ \A i, j \in 1..Len(vInput.items) : ~SameId(vInput.items, i, j)

\* C21 as stated: valid is true exactly for an array of 100 accepted records
\* with pairwise distinct ids, and an id that occurs more than once makes the
\* result invalid with a duplicate-id message naming that id.
C21_DuplicatesNamed ==
    vCalled = "validatePoemCollection" =>
        /\ ValidIffComplete
        /\ vInput.isArray =>
               \A i, j \in 1..Len(vInput.items) :
                   SameId(vInput.items, i, j) =>
                       /\ ~vResult.valid
                       /\ NamedAsDuplicate(vInput.items[i].id)

\* C21 amended: valid is true exactly for an array of 100 accepted records
\* with pairwise distinct ids; an integer id that occurs more than once makes
\* the result invalid with a duplicate-id message naming it, and the message
\* names nothing but integer ids that occur more than once.
C21_IntegerDuplicatesNamed ==
    vCalled = "validatePoemCollection" =>
        /\ ValidIffComplete
        /\ vInput.isArray =>
               \A i \in 1..Len(vInput.items) :
                   LET id == vInput.items[i].id
                       twice == \E j \in 1..Len(vInput.items) : SameId(vInput.items, i, j)
                   IN  /\ (twice /\ id.kind = "int") =>
                              ~vResult.valid /\ NamedAsDuplicate(id)
                       /\ NamedAsDuplicate(id) => (twice /\ id.kind = "int")

C21_Witness ==
    /\ vCalled = "validatePoemCollection"
    /\ vInput.isArray
    /\ Len(vInput.items) = 100
    /\ vInput.items[100].id = IdInt(1)
    /\ vInput.items[1].id = IdInt(1)
    /\ NamedAsDuplicate(IdInt(1))
    /\ Len(vResult.errors) = 1

\* C25: while a card click is being processed, that is until its feedback
\* promise has resolved and the round has been advanced, no further card click
\* is accepted: a click is processed only when no feedback is pending, so
\* right after it the only pending feedback is its own.
C25_OneClickAtATime ==
    appOp = "click" => Len(timers) = 1

\* C26: every nextRound() call of the page acts on the engine, and in the
\* round, whose prompt has just been judged correct, also when startGame runs
\* again while a fetch or a feedback animation is pending.
C26_AdvanceOnJudgedEngine ==
    [][\A k \in DOMAIN timers :
           correctFeedbackDone(k) =>
               /\ timers[k].engine = engineGen
               /\ timers[k].round = currentRound
               /\ ~gameOver]_vars

\* C27: in the page each round gets at most one correct judgment, so the
\* remaining count on the score board (totalCards - correct) equals the size
\* of the engine's pool and score never exceeds totalRounds.
C27_RemainingMatchesPool ==
    engineGen > 0 =>
        /\ getScore.remaining = Len(remainingCards)
        /\ totalCards - correct = Len(remainingCards)
        /\ score <= totalRounds

Visible ==
    {name \in {"start", "game", "over"} :
        CASE name = "start" -> startScreen # "none"
          [] name = "game" -> gameScreen # "none"
          [] name = "over" -> gameOverScreen # "none"}

\* the screen a UIRenderer method selects
Selected(method) ==
    CASE method = "showStartScreen" -> "start"
      [] method = "showGameScreen" -> "game"
      [] method = "showGameOverScreen" -> "over"
      [] method = "renderGameOver" -> "over"

\* C29: after any sequence of showStartScreen, showGameScreen,
\* showGameOverScreen and renderGameOver calls exactly one of the three
\* screens is visible, and it is the one the last call selects.
C29_OneScreenVisible ==
    uiOp # "none" => Visible = {Selected(uiOp)}

C29_Witness ==
    /\ uiOp = "showGameScreen"
    /\ finalScoreHTML # <<>>
    /\ Visible = {"game"}

\* C30: in the minimal quiz variant each question index is scored at most
\* once: score <= current + 1 in every state, and the final score shown
\* never exceeds total, whatever the interleaving of startGame, answer and
\* nextQuestion with their pending fetches.
C30_ScoredOncePerQuestion ==
    /\ quizScore <= current + 1
    /\ resultScore # <<>> => resultScore[1] <= quizTotal
====
